---- MODULE Spec2Model ----
(***************************************************************************)
(* A model of the MirrorBrain bridge: the gRPC AgentBridge service         *)
(* (chrysalis/ipc/brain_server.py), its test client                        *)
(* (chrysalis/ipc/brain_client.py), the MCP tool adapter                   *)
(* (chrysalis/mcp/device_server.py) and the orchestrator's interaction     *)
(* loop (chrysalis/orchestrator.py).                                       *)
(*                                                                         *)
(* An RPC is a record; the RPCs of the service are kept in the thread      *)
(* pool's FIFO work queue (queue), on its worker threads (active) and,     *)
(* once their handler has returned, in finished.  Two RPCs with the same   *)
(* request in the same state are indistinguishable to the service, so      *)
(* active and finished are bags.                                           *)
(***************************************************************************)
EXTENDS Bags, FiniteSets, Integers, Sequences, TLC

\* The service and its clients.
VARIABLES queue, active, finished

\* The tool adapter (device_server.py): where its one thread is (pc), the tool
\* invoked and its arguments (tool), the request built (toolRequest), what the
\* transport brings back for it (wire), the value of execute_android_intent
\* (result), what the tool function returned or raised (ret), the number of
\* tool invocations so far (ncalls), and the request_ids of the requests built
\* so far, in order (usedIds).
VARIABLES pc, tool, toolRequest, wire, result, ret, ncalls, usedIds

\* serve() (brain_server.py): how far it has come (server).
VARIABLES server

\* The clock the service reads with time.time(), in milliseconds (now), and
\* the events the service has sent, in the order it sent them, each with its
\* type and its timestamp (emitted).
VARIABLES now, emitted

\* The orchestrator's interaction loop (orchestrator.py): where it is (opc),
\* the line it read last (user_input), the tool calls it has issued that have
\* not ended (inflight), the tool calls it has issued so far (tool_calls) and
\* the number of lines read so far (ninputs).
VARIABLES opc, user_input, inflight, tool_calls, ninputs

svars == <<queue, active, finished>>

avars == <<pc, tool, toolRequest, wire, result, ret, ncalls, usedIds>>

lvars == <<server>>

cvars == <<now, emitted>>

ovars == <<opc, user_input, inflight, tool_calls, ninputs>>

vars == <<svars, avars, lvars, cvars, ovars>>

(* ------------------------------ bounds -------------------------------- *)

\* RPCs the clients issue in one behaviour of Spec.
MaxCalls == 3

(* ------------------------- program constants -------------------------- *)

\* futures.ThreadPoolExecutor(max_workers=10)
max_workers == 10

\* The intents the clients of the repository send, and one that none sends.
Intents == {"TOAST", "UNKNOWN_X"}

\* An intent is known when a tool or the test client of the repository uses it.
KnownIntents == {"TOAST", "LAUNCH_APP", "VIBRATE", "QUERY_BATTERY", "TEST_ACTION"}

\* params: map<string,string>, as its set of key/value pairs.
ParamSets == { {}, {<<"message", "hi">>} }

RequestIds == {"r1", "r2"}

ClientIds == {"test-client"}

(* ------------------------------ JSON ---------------------------------- *)

\* A dict is the set of its key/value pairs.  A JSON text is the text of an
\* object (form "object", with the object it denotes), the empty string, or
\* a text that is no JSON.
JsonEmpty == [form |-> "empty", value |-> {}]

JsonGarbage == [form |-> "garbage", value |-> {}]

\* json.dumps(obj)
json_dumps(obj) == [form |-> "object", value |-> obj]

\* The params are dropped: an empty dict.
dict_Empty(params) == {}

\* dict(request.params): a dict with the map's key/value pairs.
dict(params) == {kv \in params : TRUE}

(* ----------------------------- messages ------------------------------- *)

NoRequest == [intent |-> "", params |-> {}, request_id |-> "", client_id |-> ""]

ActionRequest(intent, params, request_id) ==
    [intent |-> intent, params |-> params, request_id |-> request_id, client_id |-> ""]

EventStreamRequest(client_id) ==
    [intent |-> "", params |-> {}, request_id |-> "", client_id |-> client_id]

PingRequest == NoRequest

NoResponse ==
    [success |-> FALSE, message |-> <<>>, result_json |-> JsonEmpty,
     request_id |-> "", ready |-> FALSE]

ActionResponse(success, message, result_json, request_id) ==
    [success |-> success, message |-> message, result_json |-> result_json,
     request_id |-> request_id, ready |-> FALSE]

PingResponse(ready) ==
    [success |-> FALSE, message |-> <<>>, result_json |-> JsonEmpty,
     request_id |-> "", ready |-> ready]

(* --------------------------- the handlers ----------------------------- *)

\* Ping answers ready=False.
Ping_NotReady(request) == PingResponse(FALSE)

\* AgentBridge.Ping
Ping(request) == PingResponse(TRUE)

\* Execute without request_id=request.request_id: the field keeps its default.
Execute_DropsRequestId(request) ==
    ActionResponse(TRUE, <<"Executed", request.intent>>,
                   json_dumps({<<"status", "processed">>,
                               <<"echo_params", dict(request.params)>>}), "")

\* Execute numbers its answers: the message says how many RPCs ended before.
Execute_CountsCalls(request) ==
    ActionResponse(TRUE, <<"Executed", request.intent, BagCardinality(finished)>>,
                   json_dumps({<<"status", "processed">>,
                               <<"echo_params", dict(request.params)>>}),
                   request.request_id)

\* AgentBridge.Execute
Execute(request) ==
    LET response_payload ==
            {<<"status", "processed">>, <<"echo_params", dict(request.params)>>}
    IN  ActionResponse(TRUE, <<"Executed", request.intent>>,
                       json_dumps(response_payload), request.request_id)

\* The list events of AgentBridge.StreamEvents (type, data).
events ==
    << [type |-> "NOTIFICATION", data |-> {<<"package", "com.whatsapp">>, <<"title", "New Message">>}],
       [type |-> "SCREEN_STATE", data |-> {<<"state", "ON">>}],
       [type |-> "BATTERY", data |-> {<<"level", "85%">>}] >>

\* SystemEvent(type=evt_type, payload_json=json.dumps(data)) of the pos-th
\* iteration of the for loop (pos counts from 0).
SystemEvent(pos) ==
    [type |-> events[pos + 1].type, payload_json |-> json_dumps(events[pos + 1].data)]

(* ------------------------------- RPCs --------------------------------- *)

\* An RPC as the client issues it.  pos: iterations of the generator's loop
\* done; delivered: the events sent to the client; recv: how many of them the
\* client has taken from its iterator; cancelled: the client has cancelled;
\* stamp: the timestamp of the event the generator has built and not yet
\* handed over (0: none).
NewCall(kind, request) ==
    [kind |-> kind, req |-> request, resp |-> NoResponse, pos |-> 0,
     delivered |-> <<>>, recv |-> 0, cancelled |-> FALSE, stamp |-> 0]

Unary(c) == c.kind \in {"Ping", "Execute"}

Requests ==
    {ActionRequest(i, p, r) : i \in Intents, p \in ParamSets, r \in RequestIds}

\* Bag of one element.
One(c) == SetToBag({c})

\* A worker is never given back: the RPCs that ended still count.
Workers_NeverReleased == BagCardinality(active) + BagCardinality(finished)

\* The worker threads of the pool that are running an RPC.
Workers == BagCardinality(active)

Replace(bag, c, d) == (bag (-) One(c)) (+) One(d)

IsStream(c) == c.kind = "StreamEvents"

(* ------------------------ the service's steps ------------------------- *)

InitService ==
    /\ queue = <<>>
    /\ active = EmptyBag
    /\ finished = EmptyBag

\* A client issues an RPC; the server hands it to the thread pool
\* (grpc.server(futures.ThreadPoolExecutor(...))), whose work queue is FIFO.
Submit(c) ==
    /\ queue' = Append(queue, c)
    /\ UNCHANGED <<active, finished>>
    /\ UNCHANGED <<avars, lvars, cvars, ovars>>

\* A free worker thread of the pool takes the oldest queued RPC.  An RPC the
\* client cancelled while it waited ends without its handler being invoked.
Dispatch ==
    /\ queue # <<>>
    /\ Workers < max_workers
    /\ queue' = Tail(queue)
    /\ IF Head(queue).cancelled
         THEN /\ finished' = finished (+) One(Head(queue))
              /\ active' = active
         ELSE /\ active' = active (+) One(Head(queue))
              /\ finished' = finished
    /\ UNCHANGED <<avars, lvars, cvars, ovars>>

\* The worker runs AgentBridge.Ping and sends its response.
RunPing(c) ==
    /\ BagIn(c, active)
    /\ c.kind = "Ping"
    /\ active' = active (-) One(c)
    /\ finished' = finished (+) One([c EXCEPT !.resp = Ping(c.req)])
    /\ UNCHANGED queue
    /\ UNCHANGED <<avars, lvars, cvars, ovars>>

\* The worker runs AgentBridge.Execute and sends its response.
RunExecute(c) ==
    /\ BagIn(c, active)
    /\ c.kind = "Execute"
    /\ active' = active (-) One(c)
    /\ finished' = finished (+) One([c EXCEPT !.resp = Execute(c.req)])
    /\ UNCHANGED queue
    /\ UNCHANGED <<avars, lvars, cvars, ovars>>

\* The generator starts over at the end of the list.
NextPos_Wraps(c) == (c.pos + 1) % Len(events)

\* The position of the generator after one more iteration of its for loop.
NextPos(c) == c.pos + 1

\* The streams share one cursor into events instead of each having its own.
Yielded_SharedCursor(c) ==
    LET others == BagToSet(active) \ {c}
        moved == IF others = {} THEN 0 ELSE 1
    IN  SystemEvent((c.pos + moved) % Len(events))

\* The event the generator of AgentBridge.StreamEvents yields next.
Yielded(c) == SystemEvent(c.pos)

\* The send to a client that has gone never completes, and the worker stays in it.
StreamYield_BlocksOnDeparted(c) ==
    /\ BagIn(c, active)
    /\ IsStream(c)
    /\ c.pos < Len(events)
    /\ ~c.cancelled
    /\ active' = Replace(active, c,
           [c EXCEPT !.pos = NextPos(c),
                     !.delivered = Append(c.delivered, Yielded(c))])
    /\ UNCHANGED <<queue, finished>>
    /\ UNCHANGED <<avars, lvars, cvars, ovars>>

\* One iteration of the for loop of AgentBridge.StreamEvents (for all but the
\* first, after time.sleep(0.5)): the generator yields the next event and the
\* server sends it, unless the client has cancelled: then the RPC ends and the
\* worker is free.
StreamYield(c) ==
    /\ BagIn(c, active)
    /\ IsStream(c)
    /\ c.pos < Len(events)
    /\ IF c.cancelled
         THEN /\ active' = active (-) One(c)
              /\ finished' = finished (+) One([c EXCEPT !.pos = NextPos(c)])
         ELSE /\ active' = Replace(active, c,
                     [c EXCEPT !.pos = NextPos(c),
                               !.delivered = Append(c.delivered, Yielded(c))])
              /\ finished' = finished
    /\ UNCHANGED queue
    /\ UNCHANGED <<avars, lvars, cvars, ovars>>

\* The for loop is exhausted (after the last time.sleep(0.5)): the generator
\* returns, the RPC ends and the worker is free.
StreamReturn(c) ==
    /\ BagIn(c, active)
    /\ IsStream(c)
    /\ c.pos >= Len(events)
    /\ active' = active (-) One(c)
    /\ finished' = finished (+) One(c)
    /\ UNCHANGED queue
    /\ UNCHANGED <<avars, lvars, cvars, ovars>>

(* ------------------------- the clients' steps ------------------------- *)

\* for event in stub.StreamEvents(...): the client takes the next event.
Taken(c) == [c EXCEPT !.recv = c.recv + 1]

CanTake(c) == IsStream(c) /\ ~c.cancelled /\ c.recv < Len(c.delivered)

ClientRecvActive(c) ==
    /\ BagIn(c, active)
    /\ CanTake(c)
    /\ active' = Replace(active, c, Taken(c))
    /\ UNCHANGED <<queue, finished>>
    /\ UNCHANGED <<avars, lvars, cvars, ovars>>

ClientRecvFinished(c) ==
    /\ BagIn(c, finished)
    /\ CanTake(c)
    /\ finished' = Replace(finished, c, Taken(c))
    /\ UNCHANGED <<queue, active>>
    /\ UNCHANGED <<avars, lvars, cvars, ovars>>

\* break: the client stops iterating, which cancels the RPC.
Cancelled(c) == [c EXCEPT !.cancelled = TRUE]

ClientCancelQueued(i) ==
    /\ i \in 1..Len(queue)
    /\ IsStream(queue[i])
    /\ ~queue[i].cancelled
    /\ queue' = [queue EXCEPT ![i] = Cancelled(queue[i])]
    /\ UNCHANGED <<active, finished>>
    /\ UNCHANGED <<avars, lvars, cvars, ovars>>

ClientCancelActive(c) ==
    /\ BagIn(c, active)
    /\ IsStream(c)
    /\ ~c.cancelled
    /\ active' = Replace(active, c, Cancelled(c))
    /\ UNCHANGED <<queue, finished>>
    /\ UNCHANGED <<avars, lvars, cvars, ovars>>

(* --------------------------- specification ---------------------------- *)

ServerStep ==
    \/ Dispatch
    \/ \E c \in BagToSet(active) : RunPing(c)
    \/ \E c \in BagToSet(active) : RunExecute(c)
    \/ \E c \in BagToSet(active) : StreamYield(c)
    \/ \E c \in BagToSet(active) : StreamReturn(c)

ClientStep ==
    \/ \E c \in BagToSet(active) : ClientRecvActive(c)
    \/ \E c \in BagToSet(finished) : ClientRecvFinished(c)
    \/ \E i \in 1..Len(queue) : ClientCancelQueued(i)
    \/ \E c \in BagToSet(active) : ClientCancelActive(c)

NewCalls ==
    {NewCall("Execute", r) : r \in Requests}
        \cup {NewCall("StreamEvents", EventStreamRequest(id)) : id \in ClientIds}
        \cup {NewCall("Ping", PingRequest)}

\* The number of RPCs the clients have sent so far.
Issued == Len(queue) + BagCardinality(active) + BagCardinality(finished)

Issue == Issued < MaxCalls /\ \E c \in NewCalls : Submit(c)

(* -------------------------- the tool adapter -------------------------- *)

\* Tool invocations so far in one behaviour of AdapterSpec.
MaxToolCalls == 2

\* os.urandom(4).hex(): two of the 2^32 values.
RandomHex == {"00000000", "ffffffff"}

\* A tool invocation: the tool's name, its argument as the function receives
\* it (text for a str parameter, duration_ms for the int parameter), and how
\* the argument the host gave relates to the declared type (arg): "typed", of
\* the declared type; "numeric_string", a string of digits for the int
\* parameter; "text_for_int", another string for the int parameter;
\* "int_for_str", an integer for a str parameter; "missing", a required
\* argument left out.
NoTool == [name |-> "", text |-> "", duration_ms |-> 0, arg |-> "typed"]

\* The @mcp.tool() functions with arguments of their declared types.
ToolInvocations ==
    {[name |-> "show_toast", text |-> m, duration_ms |-> 0, arg |-> "typed"] : m \in {"hi"}}
        \cup {[name |-> "open_application", text |-> p, duration_ms |-> 0, arg |-> "typed"] :
                p \in {"com.android.settings"}}
        \cup {[name |-> "vibrate_device", text |-> "", duration_ms |-> d, arg |-> "typed"] :
                d \in {500, 1000}}
        \cup {[name |-> "get_battery_status", text |-> "", duration_ms |-> 0, arg |-> "typed"]}

\* Invocations whose arguments do not match the declared parameter types:
\* vibrate_device(duration_ms="1000"), vibrate_device(duration_ms="abc"),
\* show_toast(message=123), show_toast().
MalformedInvocations ==
    {[name |-> "vibrate_device", text |-> "", duration_ms |-> 1000, arg |-> "numeric_string"],
     [name |-> "vibrate_device", text |-> "abc", duration_ms |-> 0, arg |-> "text_for_int"],
     [name |-> "show_toast", text |-> "", duration_ms |-> 123, arg |-> "int_for_str"],
     [name |-> "show_toast", text |-> "", duration_ms |-> 0, arg |-> "missing"]}

\* The arguments match the schema the tool declares.
MatchesSchema(t) == t.arg = "typed"

\* A strict check: only arguments of the declared types reach the function.
ReachesFunction_Strict(t) == t.arg = "typed"

\* The tool functions check nothing themselves; @mcp.tool() has the host's
\* arguments converted to the annotated types before the function is called,
\* and the call is refused when that fails: a string of digits is converted
\* to the int it denotes, another string is not, and an integer is not
\* converted to str.
ReachesFunction(t) == t.arg \in {"typed", "numeric_string"}

\* The intent each tool function passes to execute_android_intent.
IntentOf(t) ==
    CASE t.name = "show_toast" -> "TOAST"
      [] t.name = "open_application" -> "LAUNCH_APP"
      [] t.name = "vibrate_device" -> "VIBRATE"
      [] OTHER -> "QUERY_BATTERY"

\* The params each tool function passes to execute_android_intent.
ParamsOf(t) ==
    CASE t.name = "show_toast" -> {<<"message", t.text>>}
      [] t.name = "open_application" -> {<<"package", t.text>>}
      [] t.name = "vibrate_device" -> {<<"duration", ToString(t.duration_ms)>>}
      [] OTHER -> {}

\* The request_id without the "mcp-" prefix.
NewRequestId_NoPrefix(hex) == <<hex>>

\* "mcp-" + os.urandom(4).hex()
NewRequestId(hex) == <<"mcp-", hex>>

\* What the transport brings back for a call of stub.Execute: a Response, a
\* grpc.RpcError with a status code, or nothing at all (the peer accepted the
\* request and never answers, or the network drops it without a reset).
NoWire == [kind |-> "unset", response |-> NoResponse, code |-> ""]

WireResponse(r) == [kind |-> "response", response |-> r, code |-> ""]

WireError(code) == [kind |-> "rpc_error", response |-> NoResponse, code |-> code]

WireSilence == [kind |-> "silence", response |-> NoResponse, code |-> ""]

\* The Responses a bridge may answer a request with: the one of
\* AgentBridge.Execute, an application failure, and Responses whose
\* result_json is no JSON.
ResponsesTo(req) ==
    {Execute(req),
     ActionResponse(FALSE, <<"denied", req.intent>>, JsonEmpty, req.request_id),
     ActionResponse(TRUE, <<"Executed", req.intent>>, JsonGarbage, req.request_id),
     ActionResponse(FALSE, <<"denied", req.intent>>, JsonGarbage, req.request_id)}

StatusCodes == {"UNAVAILABLE", "DEADLINE_EXCEEDED"}

WireOutcomes(req) ==
    {WireResponse(r) : r \in ResponsesTo(req)}
        \cup {WireError(code) : code \in StatusCodes}
        \cup {WireSilence}

NoException == [class |-> "", text |-> ""]

\* The exception the body of the try raises, if any: stub.Execute raises
\* grpc.RpcError; json.loads raises json.JSONDecodeError on a text that is no
\* JSON (it is called only on a non-empty result_json).
RaisedInTry(w) ==
    IF w.kind = "rpc_error"
      THEN [class |-> "RpcError", text |-> w.code]
      ELSE IF w.response.result_json.form = "garbage"
             THEN [class |-> "JSONDecodeError", text |-> "Expecting value"]
             ELSE NoException

\* json.loads(response.result_json) if response.result_json else {}
DecodedData(r) ==
    IF r.result_json.form = "empty" THEN {} ELSE r.result_json.value

\* except grpc.RpcError as e, instead of except Exception.
Catches_OnlyRpcError(e) == e.class = "RpcError"

\* except Exception as e: the classes it catches.
Catches(e) == e.class \in {"RpcError", "JSONDecodeError", "TypeError", "ValueError"}

NoResult ==
    [kind |-> "unset", keys |-> {}, success |-> FALSE, message |-> <<>>,
     data |-> {}, error |-> "", exc |-> NoException]

\* execute_android_intent, from the moment stub.Execute ends with w: the dict
\* it returns, or the exception that leaves it.
execute_android_intent(w) ==
    LET e == RaisedInTry(w) IN
    IF e = NoException
      THEN [kind |-> "return", keys |-> {"success", "message", "data"},
            success |-> w.response.success, message |-> w.response.message,
            data |-> DecodedData(w.response), error |-> "", exc |-> NoException]
      ELSE IF Catches(e)
             THEN [kind |-> "return", keys |-> {"success", "error"},
                   success |-> FALSE, message |-> <<>>, data |-> {},
                   error |-> e.text, exc |-> NoException]
             ELSE [NoResult EXCEPT !.kind = "raise", !.exc = e]

NoReturn == [kind |-> "unset", prefix |-> "", value |-> NoResult]

\* The f-string prefix of each tool function's return value.
PrefixOf(t) ==
    CASE t.name = "show_toast" -> "Toast executed: "
      [] t.name = "open_application" -> "App Launch executed: "
      [] t.name = "vibrate_device" -> "Vibration executed: "
      [] OTHER -> ""

\* The tool function after execute_android_intent: it returns the formatted
\* result, or the exception passes through it.
ToolReturns(t, res) ==
    IF res.kind = "return"
      THEN [kind |-> "return", prefix |-> PrefixOf(t), value |-> res]
      ELSE [kind |-> "raise", prefix |-> "", value |-> res]

InitAdapter ==
    /\ pc = "idle"
    /\ tool = NoTool
    /\ toolRequest = NoRequest
    /\ wire = NoWire
    /\ result = NoResult
    /\ ret = NoReturn
    /\ ncalls = 0
    /\ usedIds = <<>>

\* The host invokes a tool: the function is called, or the invocation is
\* refused with an error result and the function is not called.
InvokeTool(t) ==
    /\ pc = "idle"
    /\ ncalls < MaxToolCalls
    /\ tool' = t
    /\ toolRequest' = NoRequest
    /\ wire' = NoWire
    /\ result' = NoResult
    /\ ncalls' = ncalls + 1
    /\ IF ReachesFunction(t)
         THEN ret' = NoReturn /\ pc' = "try"
         ELSE ret' = [NoReturn EXCEPT !.kind = "tool_error"] /\ pc' = "idle"
    /\ UNCHANGED usedIds
    /\ UNCHANGED <<svars, lvars, cvars, ovars>>

\* stub.Execute(agent_pb2.ActionRequest(...)): the request is built and sent,
\* with no timeout; the thread waits for what the transport brings.
CallStub(hex, w) ==
    /\ pc = "try"
    /\ toolRequest' = ActionRequest(IntentOf(tool), ParamsOf(tool), NewRequestId(hex))
    /\ usedIds' = Append(usedIds, NewRequestId(hex))
    /\ wire' = w
    /\ pc' = "calling"
    /\ UNCHANGED <<tool, result, ret, ncalls>>
    /\ UNCHANGED <<svars, lvars, cvars, ovars>>

\* stub.Execute returns the Response or raises, and execute_android_intent
\* runs to its end.
StubEnds ==
    /\ pc = "calling"
    /\ wire.kind \in {"response", "rpc_error"}
    /\ result' = execute_android_intent(wire)
    /\ pc' = "helper_done"
    /\ UNCHANGED <<tool, toolRequest, wire, ret, ncalls, usedIds>>
    /\ UNCHANGED <<svars, lvars, cvars, ovars>>

\* The tool function returns to the host.
ToolEnds ==
    /\ pc = "helper_done"
    /\ ret' = ToolReturns(tool, result)
    /\ pc' = "idle"
    /\ UNCHANGED <<tool, toolRequest, wire, result, ncalls, usedIds>>
    /\ UNCHANGED <<svars, lvars, cvars, ovars>>

AdapterStep ==
    \/ \E t \in ToolInvocations \cup MalformedInvocations : InvokeTool(t)
    \/ \E hex \in RandomHex :
         \E w \in WireOutcomes(ActionRequest(IntentOf(tool), ParamsOf(tool), NewRequestId(hex))) :
           CallStub(hex, w)
    \/ StubEnds
    \/ ToolEnds

(* ------------------------------ serve() ------------------------------- *)

\* serve() has built the server with its thread pool: server = grpc.server(...).
InitServe == server = "created"

\* serve() has run to server.wait_for_termination().
InitServing == server = "started"

\* add_AgentBridgeServicer_to_server(AgentBridge(), server): the servicer,
\* with its Execute handler and its StreamEvents generator, is constructed
\* and registered.
ServeRegisters ==
    /\ server = "created"
    /\ server' = "registered"
    /\ UNCHANGED <<svars, avars, cvars, ovars>>

\* server.add_insecure_port(...); server.start(): from now on RPCs arrive.
ServeStarts ==
    /\ server = "registered"
    /\ server' = "started"
    /\ UNCHANGED <<svars, avars, cvars, ovars>>

\* The servicer, which is all there is of an intent dispatch and of an event
\* publisher in the service, has been constructed.
Initialized == server \in {"registered", "started"}

(* ------------------------------ the clock ----------------------------- *)

\* The latest time the clock reaches in one behaviour of ClockSpec.
MaxTime == 2

\* StreamEvents calls opened in one behaviour of ClockSpec.
MaxClockStreams == 2

InitClock ==
    /\ now = 1
    /\ emitted = <<>>

\* Time passes; the clock never goes backwards.
ClockTick ==
    /\ now < MaxTime
    /\ now' = now + 1
    /\ UNCHANGED emitted
    /\ UNCHANGED <<svars, avars, lvars, ovars>>

\* The generator of a StreamEvents call builds its next event:
\* SystemEvent(..., timestamp=int(time.time() * 1000)) reads the clock.
StreamStamps(c) ==
    /\ BagIn(c, active)
    /\ IsStream(c)
    /\ c.pos < Len(events)
    /\ c.stamp = 0
    /\ active' = Replace(active, c, [c EXCEPT !.stamp = now])
    /\ UNCHANGED <<queue, finished>>
    /\ UNCHANGED <<now, emitted>>
    /\ UNCHANGED <<avars, lvars, ovars>>

\* yield: the worker thread hands the event it has built to the server, which
\* sends it.  Other worker threads may have run since the clock was read.
StreamEmits(c) ==
    /\ BagIn(c, active)
    /\ IsStream(c)
    /\ c.stamp # 0
    /\ active' = Replace(active, c,
           [c EXCEPT !.pos = NextPos(c),
                     !.delivered = Append(c.delivered, Yielded(c)),
                     !.stamp = 0])
    /\ emitted' = Append(emitted, [type |-> Yielded(c).type, timestamp |-> c.stamp])
    /\ UNCHANGED <<queue, finished>>
    /\ UNCHANGED now
    /\ UNCHANGED <<avars, lvars, ovars>>

(* --------------------------- the orchestrator ------------------------- *)

\* Lines the loop reads in one behaviour of OrchSpec.
MaxInputs == 3

\* A line of text is the sequence of its characters.
UpperCase == <<"A", "B", "C", "D", "E", "F", "G", "H", "I", "J", "K", "L", "M", "N", "O", "P", "Q", "R", "S", "T", "U", "V", "W", "X", "Y", "Z">>

LowerCase == <<"a", "b", "c", "d", "e", "f", "g", "h", "i", "j", "k", "l", "m", "n", "o", "p", "q", "r", "s", "t", "u", "v", "w", "x", "y", "z">>

\* str.lower(), character by character.
LowerChar(ch) ==
    IF \E i \in 1..Len(UpperCase) : UpperCase[i] = ch
      THEN LowerCase[CHOOSE i \in 1..Len(UpperCase) : UpperCase[i] = ch]
      ELSE ch

Lower(s) == [i \in 1..Len(s) |-> LowerChar(s[i])]

\* sub in s
Contains(s, sub) ==
    \E i \in 0..(Len(s) - Len(sub)) : SubSeq(s, i + 1, i + Len(sub)) = sub

quit == <<"q", "u", "i", "t">>

exit == <<"e", "x", "i", "t">>

toast == <<"t", "o", "a", "s", "t">>

vibrate == <<"v", "i", "b", "r", "a", "t", "e">>

\* ['quit', 'exit']
QuitWords == {quit, exit}

\* user_input.lower() in ['quit', 'exit']
Quits(u) == Lower(u) \in QuitWords

\* The lines a user may type: "toast", "TOAST", "show toast", "vibrate",
\* "vibrate toast", "hi", "quit", "EXIT", "quit toast", "".
UserInputs ==
    {toast, <<"T", "O", "A", "S", "T">>, <<"s", "h", "o", "w", " ", "t", "o", "a", "s", "t">>, vibrate, <<"v", "i", "b", "r", "a", "t", "e", " ", "t", "o", "a", "s", "t">>, <<"h", "i">>, quit, <<"E", "X", "I", "T">>, <<"q", "u", "i", "t", " ", "t", "o", "a", "s", "t">>, <<>>}

NoPlan == [name |-> "", arguments |-> {}]

\* The tool call the loop makes for a line: the if / elif / else on
\* "toast" in user_input and "vibrate" in user_input.
Plan(u) ==
    IF Contains(u, toast)
      THEN [name |-> "show_toast", arguments |-> {<<"message", "Hello from Brain!">>}]
      ELSE IF Contains(u, vibrate)
             THEN [name |-> "vibrate_device", arguments |-> {<<"duration_ms", 1000>>}]
             ELSE NoPlan

\* The call is started as a task of its own and the loop goes on.
IssuedCall_NotAwaited == "input"

\* result = await session.call_tool(...): the loop is suspended until the
\* call has ended.
IssuedCall == "awaiting"

InitOrchestrator ==
    /\ opc = "input"
    /\ user_input = <<>>
    /\ inflight = 0
    /\ tool_calls = <<>>
    /\ ninputs = 0

\* One pass of the while loop down to its first suspension: input("You: ")
\* returns u; on quit or exit the loop ends; else the tool call planned for u
\* is issued, or the hint is printed and the loop starts over.
ReadInput(u) ==
    /\ opc = "input"
    /\ ninputs < MaxInputs
    /\ user_input' = u
    /\ ninputs' = ninputs + 1
    /\ IF Quits(u)
         THEN opc' = "done" /\ UNCHANGED <<inflight, tool_calls>>
         ELSE IF Plan(u) # NoPlan
                THEN /\ tool_calls' = Append(tool_calls, Plan(u))
                     /\ inflight' = inflight + 1
                     /\ opc' = IssuedCall
                ELSE opc' = "input" /\ UNCHANGED <<inflight, tool_calls>>
    /\ UNCHANGED <<svars, avars, lvars, cvars>>

\* input("You: ") raises EOFError: the exception leaves the loop.
InputEnds ==
    /\ opc = "input"
    /\ opc' = "failed"
    /\ UNCHANGED <<user_input, inflight, tool_calls, ninputs>>
    /\ UNCHANGED <<svars, avars, lvars, cvars>>

\* The awaited call returns its result, which is printed; the loop starts over.
ToolCallReturns ==
    /\ opc = "awaiting"
    /\ inflight' = inflight - 1
    /\ opc' = "input"
    /\ UNCHANGED <<user_input, tool_calls, ninputs>>
    /\ UNCHANGED <<svars, avars, lvars, cvars>>

\* The awaited call raises (the session is closed, the server has died): the
\* exception leaves the loop.
ToolCallRaises ==
    /\ opc = "awaiting"
    /\ inflight' = inflight - 1
    /\ opc' = "failed"
    /\ UNCHANGED <<user_input, tool_calls, ninputs>>
    /\ UNCHANGED <<svars, avars, lvars, cvars>>

(* --------------------------- specifications --------------------------- *)

Init == InitService /\ InitAdapter /\ InitServing /\ InitClock /\ InitOrchestrator

\* The service under any clients.
Next == Issue \/ ServerStep \/ ClientStep

Spec == Init /\ [][Next]_vars

\* The tool adapter against any bridge.
AdapterNext == AdapterStep

AdapterSpec == Init /\ [][AdapterNext]_vars

\* The StreamEvents calls among the RPCs of a bag.
StreamsIn(bag) == BagCardinality([c \in {x \in BagToSet(bag) : IsStream(x)} |-> CopiesIn(c, bag)])

\* The number of StreamEvents calls the clients have opened so far.
StreamsIssued ==
    Cardinality({i \in 1..Len(queue) : IsStream(queue[i])})
        + StreamsIn(active) + StreamsIn(finished)

\* Event streams only, with fair worker threads: a worker that can take an RPC
\* or run its generator on eventually does.
MaxStreams == 2

IssueStream ==
    /\ StreamsIssued < MaxStreams
    /\ \E id \in ClientIds : Submit(NewCall("StreamEvents", EventStreamRequest(id)))

StreamStep(c) == StreamYield(c) \/ StreamReturn(c)

StreamNext ==
    \/ IssueStream
    \/ Dispatch
    \/ \E c \in BagToSet(active) : StreamYield(c)
    \/ \E c \in BagToSet(active) : StreamReturn(c)
    \/ ClientStep

StreamFairSpec ==
    /\ Init
    /\ [][StreamNext]_vars
    /\ WF_vars(Dispatch)
    /\ WF_vars(\E c \in BagToSet(active) : StreamStep(c))

\* More Execute calls than the pool has workers, each with its own
\* request_id and params, with fair worker threads.
LoadExtra == 1

LoadRequest(n) ==
    ActionRequest("TEST_ACTION", {<<"foo", ToString(n)>>}, "test-" \o ToString(n))

IssueLoad ==
    /\ Issued < max_workers + LoadExtra
    /\ Submit(NewCall("Execute", LoadRequest(Issued + 1)))

LoadNext ==
    \/ IssueLoad
    \/ Dispatch
    \/ \E c \in BagToSet(active) : RunExecute(c)

LoadFairSpec ==
    /\ Init
    /\ [][LoadNext]_vars
    /\ WF_vars(Dispatch)
    /\ WF_vars(\E c \in BagToSet(active) : RunExecute(c))

\* As many event streams as the pool has workers, whose clients neither take
\* events nor cancel, and unary calls beside them.
SatUnary == 1

IssueSatStream ==
    /\ StreamsIssued < max_workers
    /\ Submit(NewCall("StreamEvents", EventStreamRequest("test-client")))

IssueSatUnary ==
    /\ Issued - StreamsIssued < SatUnary
    /\ \/ Submit(NewCall("Ping", PingRequest))
       \/ Submit(NewCall("Execute", ActionRequest("TEST_ACTION", {<<"foo", "bar">>}, "test-1")))

SatNext ==
    \/ IssueSatStream
    \/ IssueSatUnary
    \/ ServerStep

SatSpec == Init /\ [][SatNext]_vars

\* serve() from its beginning, and the RPCs that arrive once it has started
\* the server.
MaxServeCalls == 3

IssueServe ==
    /\ server = "started"
    /\ Issued < MaxServeCalls
    /\ \E c \in NewCalls : Submit(c)

ServeNext ==
    \/ ServeRegisters
    \/ ServeStarts
    \/ IssueServe
    \/ ServerStep

ServeInit == InitService /\ InitAdapter /\ InitServe /\ InitClock /\ InitOrchestrator

ServeSpec == ServeInit /\ [][ServeNext]_vars

\* Concurrent event streams and the clock their generators read.
IssueClockStream ==
    /\ StreamsIssued < MaxClockStreams
    /\ Submit(NewCall("StreamEvents", EventStreamRequest("test-client")))

ClockNext ==
    \/ IssueClockStream
    \/ Dispatch
    \/ ClockTick
    \/ \E c \in BagToSet(active) : StreamStamps(c)
    \/ \E c \in BagToSet(active) : StreamEmits(c)
    \/ \E c \in BagToSet(active) : StreamReturn(c)

ClockSpec == Init /\ [][ClockNext]_vars

\* The interaction loop under any user and any tool server.
OrchNext ==
    \/ \E u \in UserInputs : ReadInput(u)
    \/ InputEnds
    \/ ToolCallReturns
    \/ ToolCallRaises

OrchSpec == Init /\ [][OrchNext]_vars

(* ------------------------------ claims -------------------------------- *)

Calls == BagToSet(active) \cup BagToSet(finished)

Done == BagToSet(finished)

\* C1: every Response of Execute carries the request_id of the Request that
\* triggered it, whatever its intent and params and whatever Execute, Ping
\* and StreamEvents calls run beside it.
C1_ResponseEchoesRequestId ==
    \A c \in Done : c.kind = "Execute" => c.resp.request_id = c.req.request_id

\* Two Execute calls with different request_ids have been answered while a
\* StreamEvents call is open.
C1_Witness ==
    /\ \E c \in Done : c.kind = "Execute" /\ c.req.request_id = "r1" /\ c.resp.request_id = "r1"
    /\ \E c \in Done : c.kind = "Execute" /\ c.req.request_id = "r2" /\ c.resp.request_id = "r2"
    /\ \E c \in BagToSet(active) : IsStream(c) /\ c.pos > 0

\* C2: Execute of an intent that no handler is registered for returns
\* success=false and a message naming the intent, with the request_id echoed.
C2_UnknownIntentFails ==
    \A c \in Done :
        (c.kind = "Execute" /\ c.req.intent \notin KnownIntents) =>
            /\ c.resp.success = FALSE
            /\ c.resp.message = <<"unknown intent:", c.req.intent>>
            /\ c.resp.request_id = c.req.request_id

\* The echo_params of a Response's result_json.
EchoOf(r) == {kv[2] : kv \in {x \in r.result_json.value : x[1] = "echo_params"}}

\* The n-th Execute call of LoadFairSpec has been answered, with its own
\* request_id and the echo of its own params.
Answered(n) ==
    \E c \in Done :
        /\ c.req = LoadRequest(n)
        /\ c.resp.request_id = LoadRequest(n).request_id
        /\ EchoOf(c.resp) = {LoadRequest(n).params}

\* C3: of N concurrent Execute calls with distinct request_ids, N above the
\* pool's 10 workers, every one is eventually answered (again and again all
\* the calls sent so far have their Response), once, and every Response
\* carries the request_id and the params of its own Request.
C3_AllResponsesCorrelated ==
    /\ [](\A c \in Done :
             /\ c.resp.request_id = c.req.request_id
             /\ EchoOf(c.resp) = {c.req.params}
             /\ CopiesIn(c, finished) = 1)
    /\ []<>(\A n \in 1..Issued : Answered(n))

\* All N = max_workers + LoadExtra calls have been answered.
C3_Witness ==
    /\ Issued > max_workers
    /\ \A n \in 1..Issued : Answered(n)

\* C4: a Ping or Execute never has to wait for a stream to end: whenever a
\* unary call waits in the pool's queue, a worker is free or is running a
\* unary call.
C4_UnaryNeverWaitsForStream ==
    (\E i \in 1..Len(queue) : Unary(queue[i])) =>
        (Workers < max_workers \/ \E c \in BagToSet(active) : Unary(c))

\* C5: a StreamEvents call ends only when its client has cancelled it (the
\* model has no server shutdown): the server never ends it on its own.
C5_StreamEndsOnlyOnCancel ==
    \A c \in Done : IsStream(c) => c.cancelled

\* The first n events of the list, as StreamEvents sends them.
Published(n) == [i \in 1..n |-> SystemEvent(i - 1)]

\* C6: with any other StreamEvents calls open, in whatever state, a
\* subscriber is sent the events of the list in order, without gaps and
\* without another subscriber's events: everything its generator has
\* produced while it was subscribed, and, once its call has ended without a
\* cancellation, all of them; the client has taken a prefix of that.
C6_SubscribersIndependent ==
    \A c \in Calls :
        IsStream(c) =>
            /\ c.delivered = Published(Len(c.delivered))
            /\ c.recv <= Len(c.delivered)
            /\ ~c.cancelled => Len(c.delivered) = c.pos
            /\ (c \in Done /\ ~c.cancelled) => Len(c.delivered) = Len(events)

\* Two subscribers are open at once: one has taken all the events, the other
\* has been sent two and has taken none.
C6_Witness ==
    \E c, d \in BagToSet(active) :
        /\ IsStream(c) /\ IsStream(d)
        /\ c.recv = Len(events)
        /\ Len(d.delivered) = 2 /\ d.recv = 0

\* C7: once its client has gone, a stream's generator runs at most one more
\* iteration, whose event is not sent, and the stream ends and gives its
\* worker back; the streams of the clients that stay are sent every event;
\* in the end no stream is left waiting or running.
C7_DepartedSubscriberReleased ==
    /\ [](\A c \in Calls :
             IsStream(c) =>
                 /\ c.cancelled => c.pos <= Len(c.delivered) + 1
                 /\ (c \in Done /\ ~c.cancelled) => Len(c.delivered) = Len(events))
    /\ (\E c \in BagToSet(active) : c.cancelled)
           ~> ~(\E c \in BagToSet(active) : c.cancelled)
    /\ <>[](queue = <<>> /\ active = EmptyBag)

\* A client took the first event and left, as the test client does: its
\* stream has ended after one more iteration, and the stream of a client that
\* stayed has been sent all the events.
C7_Witness ==
    /\ \E c \in Done :
          c.cancelled /\ c.recv = 1 /\ Len(c.delivered) = 1 /\ c.pos = 2
    /\ \E c \in Done : ~c.cancelled /\ Len(c.delivered) = Len(events)
    /\ active = EmptyBag

\* The tool function was called and has ended.
ToolEnded == pc = "idle" /\ wire.kind # "unset"

\* The call of execute_android_intent has ended.
HelperEnded == pc = "helper_done" \/ ToolEnded

ErrorShape == {"success", "error"}

\* C8: whatever stub.Execute ends with, execute_android_intent returns: for
\* an RpcError (unreachable bridge, deadline) and for a Response whose
\* result_json is no JSON, a dict with success False and the error text; and
\* the tool function returns a value.
C8_AdapterNeverRaises ==
    /\ result.kind # "raise"
    /\ ret.kind # "raise"
    /\ HelperEnded =>
          /\ result.kind = "return"
          /\ wire.kind = "rpc_error" =>
                result.keys = ErrorShape /\ ~result.success /\ result.error = wire.code
          /\ (wire.kind = "response" /\ wire.response.result_json.form = "garbage") =>
                result.keys = ErrorShape /\ ~result.success /\ result.error # ""
    /\ ToolEnded => (ret.kind = "return" /\ ret.value = result)

\* A tool function has returned after a Response that could not be decoded.
C8_Witness ==
    /\ pc = "idle"
    /\ wire.kind = "response"
    /\ wire.response.result_json.form = "garbage"
    /\ ret.kind = "return"
    /\ ret.value.error = "Expecting value"

\* C9: a unary call of the bridge client ends: while it waits, a step that
\* ends it (a Response, a transport error, the timeout) can be taken.
C9_UnaryCallEnds == pc = "calling" => ENABLED StubEnds

\* C10: the adapter's result has the transport-failure shape only when no
\* Response was received, and never for a Response with success=false.
C10_FailureKindsDistinct ==
    HelperEnded =>
        /\ result.keys = ErrorShape => wire.kind # "response"
        /\ (wire.kind = "response" /\ ~wire.response.success) => result.keys # ErrorShape

\* C11 (as claimed): the request_ids of any two tool invocations differ.
C11_RequestIdsDistinct ==
    \A i, j \in 1..Len(usedIds) : i # j => usedIds[i] # usedIds[j]

\* C11 (amended): every request a tool invocation builds carries a request_id
\* drawn for it: "mcp-" and the hex of 4 bytes of os.urandom, one id per
\* request built; and whatever was drawn before, every value can be drawn
\* again, so two invocations differ only as far as their draws do.
C11_RequestIdFreshlyDrawn ==
    /\ \A i \in 1..Len(usedIds) : \E h \in RandomHex : usedIds[i] = <<"mcp-", h>>
    /\ pc \in {"calling", "helper_done"} =>
          Len(usedIds) > 0 /\ toolRequest.request_id = usedIds[Len(usedIds)]
    /\ Len(usedIds) <= ncalls
    /\ pc = "try" => \A h \in RandomHex : ENABLED CallStub(h, WireSilence)

\* Two invocations have built their requests, with different request_ids.
C11_Witness ==
    /\ Len(usedIds) = 2
    /\ usedIds[1] # usedIds[2]
    /\ pc = "calling"

\* C12: an invocation whose arguments do not match the tool's declared schema
\* builds no request (and so sends none) and ends with a failure result.
C12_MalformedArgumentsRefused ==
    ~MatchesSchema(tool) =>
        /\ pc = "idle"
        /\ toolRequest = NoRequest
        /\ ret.kind = "tool_error"

\* C13: for every intent and every params, the Response of Execute has
\* success true, the message "Executed <intent>" and, as its result, the
\* JSON text of {status: "processed", echo_params: the request's params}.
C13_ExecuteEchoesParams ==
    \A c \in Done :
        c.kind = "Execute" =>
            /\ c.resp.success = TRUE
            /\ c.resp.message = <<"Executed", c.req.intent>>
            /\ c.resp.result_json.form = "object"
            /\ c.resp.result_json.value =
                   {<<"status", "processed">>, <<"echo_params", c.req.params>>}

\* Execute({intent: "TOAST", params: {message: "hi"}, request_id: "r1"}) has
\* been answered with the echo of its params.
C13_Witness ==
    \E c \in Done :
        /\ c.kind = "Execute"
        /\ c.req = ActionRequest("TOAST", {<<"message", "hi">>}, "r1")
        /\ c.resp.success
        /\ c.resp.message = <<"Executed", "TOAST">>
        /\ EchoOf(c.resp) = {{<<"message", "hi">>}}

\* C14: for every Response with success=false, the result of
\* execute_android_intent has the Response's success and the Response's
\* message.
C14_FailurePassedThrough ==
    (HelperEnded /\ wire.kind = "response" /\ ~wire.response.success) =>
        /\ result.success = wire.response.success
        /\ result.message = wire.response.message

\* C15: of the events the service has sent, over all the StreamEvents calls,
\* each has a timestamp no less than that of every event of its type sent
\* before it.
C15_TimestampsMonotonePerType ==
    \A i, j \in 1..Len(emitted) :
        (i < j /\ emitted[i].type = emitted[j].type) =>
            emitted[i].timestamp <= emitted[j].timestamp

ReadsLine == ninputs' # ninputs

\* The loop issues a tool call in this step.
IssuesCall == tool_calls' # tool_calls

\* The line contains neither "toast" nor "vibrate".
NoKeyword(u) == ~Contains(u, toast) /\ ~Contains(u, vibrate)

\* The line read last is "quit" or "exit".
QuitRead == user_input \in QuitWords

\* C17: the loop's tool calls are sequential: at most one is in flight, and
\* none when a line is read; a line that contains neither "toast" nor
\* "vibrate" issues no tool call; and once "quit" or "exit" has been read,
\* no line is read and no tool call is issued any more.
C17_ToolCallsSequential ==
    /\ [](inflight <= 1)
    /\ [](opc = "input" => inflight = 0)
    /\ [][ReadsLine => inflight = 0]_vars
    /\ [][(ReadsLine /\ NoKeyword(user_input')) => ~IssuesCall]_vars
    /\ [][QuitRead => (~IssuesCall /\ ~ReadsLine /\ inflight' = inflight)]_vars

\* The loop has issued show_toast, awaited it, issued vibrate_device, awaited
\* it, and has ended on "quit".
C17_Witness ==
    /\ opc = "done"
    /\ user_input = quit
    /\ inflight = 0
    /\ Len(tool_calls) = 2
    /\ tool_calls[1].name = "show_toast"
    /\ tool_calls[2].name = "vibrate_device"

\* The types of the events, in the order of the list.
EventOrder == <<"NOTIFICATION", "SCREEN_STATE", "BATTERY">>

\* C18: whatever other calls are open, a StreamEvents call is sent the types
\* NOTIFICATION, SCREEN_STATE, BATTERY in this order, each at most once and
\* never more than three events; a call that is not interrupted has been
\* sent exactly the three when it ends, and after the third event its
\* generator can only return.
C18_ThreeEventsInOrder ==
    \A c \in Calls :
        IsStream(c) =>
            /\ Len(c.delivered) <= 3
            /\ \A i \in 1..Len(c.delivered) : c.delivered[i].type = EventOrder[i]
            /\ (c \in Done /\ ~c.cancelled) => Len(c.delivered) = 3
            /\ (c \in BagToSet(active) /\ Len(c.delivered) = 3) =>
                   (ENABLED StreamReturn(c) /\ ~ENABLED StreamYield(c))

\* A stream has ended after its three events while another, opened beside
\* it, has been sent the first one only.
C18_Witness ==
    /\ \E c \in Done : IsStream(c) /\ ~c.cancelled /\ Len(c.delivered) = 3
    /\ \E c \in BagToSet(active) :
          IsStream(c) /\ Len(c.delivered) = 1 /\ c.delivered[1].type = "NOTIFICATION"

\* A Ping or an Execute call ends in this step.
UnaryEnds ==
    /\ BagCardinality(finished') = BagCardinality(finished) + 1
    /\ \E c \in BagToSet(finished') : Unary(c) /\ CopiesIn(c, finished') > CopiesIn(c, finished)

\* C19: Execute and Ping keep no state.  The Response to an Execute Request
\* is a function of the Request: two calls with the same Request have the
\* same Response, whatever ran before or beside them; and the step in which
\* a Ping or an Execute ends changes nothing but that RPC: the queue and every
\* other RPC, running or ended, are as they were.
C19_UnaryCallsKeepNoState ==
    /\ [](\A c, d \in Done :
             (c.kind = "Execute" /\ d.kind = "Execute" /\ c.req = d.req) =>
                 c.resp = d.resp)
    /\ [][UnaryEnds =>
             /\ queue' = queue
             /\ \E c \in BagToSet(active) :
                   /\ Unary(c)
                   /\ active' = active (-) One(c)
                   /\ \E d \in BagToSet(finished') :
                         /\ finished' = finished (+) One(d)
                         /\ d.kind = c.kind /\ d.req = c.req]_vars

\* The same Execute Request has been answered twice, with a Ping or a running
\* stream beside it.
C19_Witness ==
    /\ \E c \in Done : c.kind = "Execute" /\ CopiesIn(c, finished) = 2
    /\ \E c \in Calls : c.kind = "Ping" \/ (IsStream(c) /\ c.pos > 0)

====
